---- MODULE Spec2Model ----
(***************************************************************************)
(* PybammWrapper (src/Python/hps17k-pybamm-wrapper.py): an equivalent      *)
(* circuit battery model stepped through pybamm's CasadiSolver.            *)
(*                                                                         *)
(* Numbers are fixed point integers:                                       *)
(*   SoC fraction      1.0  = SocOne units                                 *)
(*   SoC percent       1 %  = PctScale units                               *)
(*   voltages          microvolt   (the OCV samples are given in mV)       *)
(*   resistances       micro-ohm                                           *)
(*   capacitances      farad                                               *)
(*   currents          ampere, time steps in seconds                       *)
(*   solution time     microsecond (the bootstrap solve ends at 1e-6 s)    *)
(*   capacity          ampere-hour                                         *)
(* A Python None is the empty tuple <<>> and a present value x is <<x>>;   *)
(* a float NaN is <<>> and a float x is <<x>>.                             *)
(***************************************************************************)
EXTENDS Integers, Sequences, FiniteSets, TLC

\* ---------------------------------------------------------------- bounds
\* successful step_simulation calls modelled per wrapper object
MaxSteps == 2
\* load_ocv_soc_curve calls modelled per wrapper object
MaxCurveLoads == 2
\* load_simulation calls modelled per wrapper object
MaxLoads == 2
\* successful steps modelled in the constant-current discharge scenario
ScenarioSteps == 5

\* ------------------------------------------------------------- constants
SocOne == 3600
PctScale == 1000
SecondsPerHour == 3600
MicroPerSecond == 1000000
MicroPerMilli == 1000
BootstrapEnd == 1
ExpScale == 10000
ExpUnit == 64
LOAD_NO_CURVE == -1
LOAD_EXCEPTION == -444

None == <<>>
Some(x) == <<x>>
NaN == <<>>
Float(x) == <<x>>

\* ----------------------------------------------------------- arithmetic
Div(a, b) == IF b > 0 THEN a \div b ELSE (-a) \div (-b)

\* floor(d * f / S) for S > 0 without forming d * f
MulDiv(d, f, S) ==
    IF f >= S \/ f <= -S
    THEN d * (f \div S) + (d \div S) * (f % S) + ((d % S) * (f % S)) \div S
    ELSE (d \div S) * f + ((d % S) * f) \div S

Min(a, b) == IF a < b THEN a ELSE b
Max(a, b) == IF a > b THEN a ELSE b

\* np.clip(x, lo, hi)
ClipMissing(x, lo, hi) == x

Clip(x, lo, hi) == Min(hi, Max(lo, x))

\* ------------------------------------------------- the OCV interpolant
\* casadi's linear lookup table needs at least two grid points, strictly
\* increasing; anything else makes solver.solve raise.
StrictlyIncreasing(xs) == \A i \in 1..(Len(xs) - 1) : xs[i] < xs[i + 1]

TableValid(socs, ocvs) ==
    /\ socs # None
    /\ ocvs # None
    /\ Len(socs[1]) = Len(ocvs[1])
    /\ Len(socs[1]) >= 2
    /\ StrictlyIncreasing(socs[1])

\* index of the segment used for s: the last one whose left end is <= s,
\* the first or last segment outside the grid (linear extrapolation)
Segment(xs, s) ==
    LET inside == {i \in 1..(Len(xs) - 1) : xs[i] <= s}
    IN IF inside = {} THEN 1
       ELSE CHOOSE i \in inside : \A j \in inside : j <= i

\* pybamm.Interpolant(xs, ys, soc) evaluated at s, in microvolt
InterpolantFromRightEnd(xs, ys, s) ==
    LET i == Segment(xs, s)
    IN ys[i] * MicroPerMilli
       + MulDiv(xs[i + 1] - s, (ys[i + 1] - ys[i]) * MicroPerMilli, xs[i + 1] - xs[i])

Interpolant(xs, ys, s) ==
    LET i == Segment(xs, s)
    IN ys[i] * MicroPerMilli
       + MulDiv(s - xs[i], (ys[i + 1] - ys[i]) * MicroPerMilli, xs[i + 1] - xs[i])

\* --------------------------------------------------- the ODE right side
\* exp(-2^(k-1) / ExpUnit) in units of 1 / ExpScale, k = 1..10
ExpTable == <<9845, 9692, 9394, 8825, 7788, 6065, 3679, 1353, 183, 3>>

RECURSIVE ExpBits(_, _)
ExpBits(xq, k) ==
    IF k > Len(ExpTable) THEN (IF xq > 0 THEN 0 ELSE ExpScale)
    ELSE LET rest == ExpBits(xq \div 2, k + 1)
         IN IF xq % 2 = 1 THEN (rest * ExpTable[k]) \div ExpScale ELSE rest

\* exp(-xq / ExpUnit) in units of 1 / ExpScale, xq >= 0
ExpNeg(xq) == ExpBits(xq, 1)

\* v_r' = I / C - v_r / (R * C) over dt_us microseconds at constant I:
\* v_r(t) = I R + (v_r(0) - I R) exp(-t / (R C)),  R C > 0
RcAfterOneEulerStep(v0, I, R, C, dt_us) ==
    LET vinf == I * R
        xq == MulDiv(dt_us, ExpUnit, R * C)
    IN v0 + MulDiv(vinf - v0, xq, ExpUnit)

RcAfter(v0, I, R, C, dt_us) ==
    LET vinf == I * R
        xq == MulDiv(dt_us, ExpUnit, R * C)
    IN vinf + MulDiv(v0 - vinf, ExpNeg(xq), ExpScale)

\* soc' = -I / (capacity * 3600): discharge for positive current
SocAfterCharging(soc0, I, capacity, dt_us) ==
    soc0 + Div(MulDiv(dt_us, I, MicroPerSecond) * SocOne, capacity * SecondsPerHour)

SocAfter(soc0, I, capacity, dt_us) ==
    soc0 - Div(MulDiv(dt_us, I, MicroPerSecond) * SocOne, capacity * SecondsPerHour)

\* SoC fraction -> percent: soc_val * 100.0
Percent(soc) == MulDiv(soc, 100 * PctScale, SocOne)

\* float(min(100.0, max(0.0, soc_percent)))
ClampPercentMissing(p) == p

ClampPercent(p) == Min(100 * PctScale, Max(0, p))

\* ------------------------------------------------------------- inputs
\* OCV/SoC sample tables handed to load_ocv_soc_curve: <<soc_data, ocv_data>>
ScenarioCurve == << <<0, 1800, 3600>>, <<3000, 3700, 4200>> >>
UnsortedCurve == << <<3600, 0, 1800>>, <<4200, 3000, 3700>> >>
ShortCurve == << <<1800>>, <<3700>> >>
Curves == {ScenarioCurve, UnsortedCurve, ShortCurve}

\* the keyword defaults of load_simulation
DefaultArgs ==
    [num_rc_pairs |-> 2, R0 |-> 1500, R1 |-> 1000, C1 |-> 2500,
     R2 |-> 800, C2 |-> 40000, nominal_capacity_Ah |-> 5,
     upper_voltage_cutoff |-> 5000, lower_voltage_cutoff |-> 3000]

\* argument sets of load_simulation; the RC branch values are drawn
\* non-negative (RcAfter is the decaying solution)
ArgSets ==
    {DefaultArgs,
     [DefaultArgs EXCEPT !.num_rc_pairs = 1],
     [DefaultArgs EXCEPT !.upper_voltage_cutoff = 4000],
     [DefaultArgs EXCEPT !.R0 = 0],
     [DefaultArgs EXCEPT !.nominal_capacity_Ah = -1],
     [DefaultArgs EXCEPT !.nominal_capacity_Ah = 0],
     [DefaultArgs EXCEPT !.R1 = 0],
     [DefaultArgs EXCEPT !.C1 = 0],
     [DefaultArgs EXCEPT !.R2 = 0],
     [DefaultArgs EXCEPT !.C2 = 0]}

\* current_A and time_step_s of step_simulation
Currents == {-5, 0, 5, 500}
TimeSteps == {-1, 60}

\* --------------------------------------------------------------- state
VARIABLES
    soc_data,          \* self.soc_data
    ocv_data,          \* self.ocv_data
    model,             \* self.model
    simulation,        \* self.simulation
    solution,          \* self.solution
    parameter_values,  \* self.parameter_values (<<>> while the attribute is unset)
    solver,            \* self.solver (<<>> while the attribute is unset)
    model_processed,   \* self.model_processed (FALSE while the attribute is unset)
    lastOp,            \* history: name of the last call
    ret,               \* history: its return value
    raised,            \* history: the exception its handler caught, "no" if none
    everLoaded,        \* history: some load_simulation has succeeded
    cfg,               \* history: inputs and result of the last successful load_simulation
    charge,            \* history: <<sum of I * dt>> over the steps since that load while
                       \*          only steps were made and SoC stayed in [0, 1], else <<>>
    stepped,           \* history: a step has succeeded since the object was created,
                       \*          last configured or last reset
    nsteps,            \* history: successful step_simulation calls so far
    reconfigured,      \* history: that load repeated the previous configuration right
                       \*          after a reset, with steps made before it
    overSession,       \* history: that load was made on a session in progress (a step
                       \*          had succeeded and no reset was made since)
    ncurves,           \* history: load_ocv_soc_curve calls so far
    nloads             \* history: load_simulation calls so far

prog == <<soc_data, ocv_data, model, simulation, solution, parameter_values,
          solver, model_processed>>
hist == <<lastOp, ret, raised, everLoaded, cfg, charge, stepped, nsteps, reconfigured,
          overSession, ncurves, nloads>>
vars == <<prog, hist>>

\* PybammWrapper.__init__
Init ==
    /\ soc_data = None
    /\ ocv_data = None
    /\ model = None
    /\ simulation = None
    /\ solution = None
    /\ parameter_values = None
    /\ solver = None
    /\ model_processed = FALSE
    /\ lastOp = "create"
    /\ ret = <<>>
    /\ raised = "no"
    /\ everLoaded = FALSE
    /\ cfg = None
    /\ charge = None
    /\ stepped = FALSE
    /\ nsteps = 0
    /\ reconfigured = FALSE
    /\ overSession = FALSE
    /\ ncurves = 0
    /\ nloads = 0

\* ------------------------------------------------------ model and solver
\* the parameter dictionary stored for step_simulation
ParameterValues(a) ==
    [Capacity |-> a.nominal_capacity_Ah, R0 |-> a.R0, R1 |-> a.R1, C1 |-> a.C1,
     R2 |-> a.R2, C2 |-> a.C2]

\* pybamm raises ZeroDivisionError when a symbol is divided by a zero scalar:
\* -current / (capacity * 3600), current / c1, v_r1 / (r1 * c1), and the same for
\* the second branch
RhsDividesByZero(p) ==
    \/ p.Capacity * SecondsPerHour = 0
    \/ p.C1 = 0
    \/ p.R1 * p.C1 = 0
    \/ p.C2 = 0
    \/ p.R2 * p.C2 = 0

\* pybamm.BaseBatteryModel() before rhs, initial_conditions and variables are set
EmptyModel == [rhs |-> None, ic |-> None, table |-> None]

\* a model with rhs, initial_conditions and variables set
BuiltModel(p, ic, socs, ocvs) ==
    [rhs |-> Some(p), ic |-> Some(ic), table |-> Some(<<socs, ocvs>>)]

\* initial_conditions of load_simulation: SoC 1.0, both overpotentials 0.0
InitialConditionsFromStoredModel ==
    IF model # None /\ model[1].ic # None THEN model[1].ic[1] ELSE <<SocOne, 0, 0>>

InitialConditions == <<SocOne, 0, 0>>

\* solver.solve raises: t_eval not increasing, or a lookup table casadi rejects
SolveRaises(socs, ocvs, t0, t1) == t1 < t0 \/ ~TableValid(socs, ocvs)

\* the Solution of solver.solve(model, t_eval=[t0, t1], inputs={"Current [A]": I}):
\* last time, last state vector y = (SoC, v_r1, v_r2), and the model variables
\* "Terminal voltage [V]" = ocv - current * r0 - v_r1 - v_r2 and "Current [A]"
\* at the last time
Solve(ic, p, socs, ocvs, t0, t1, I) ==
    LET soc == SocAfter(ic[1], I, p.Capacity, t1 - t0)
        v1 == RcAfter(ic[2], I, p.R1, p.C1, t1 - t0)
        v2 == RcAfter(ic[3], I, p.R2, p.C2, t1 - t0)
    IN [t |-> t1, y |-> <<soc, v1, v2>>,
        V |-> Interpolant(socs[1], ocvs[1], soc) - I * p.R0 - v1 - v2,
        I |-> I]

\* ------------------------------------------------------------- actions
\* load_ocv_soc_curve(soc_data, ocv_data): stores the arrays as given
load_ocv_soc_curve(c) ==
    /\ ncurves < MaxCurveLoads
    /\ ncurves' = ncurves + 1
    /\ soc_data' = Some(c[1])
    /\ ocv_data' = Some(c[2])
    /\ lastOp' = "load_ocv_soc_curve"
    /\ ret' = <<TRUE>>
    /\ raised' = "no"
    /\ charge' = None
    /\ UNCHANGED <<model, simulation, solution, parameter_values, solver,
                   model_processed, everLoaded, cfg, stepped, nsteps, reconfigured,
                   overSession, nloads>>

\* the "if self.soc_data is None or self.ocv_data is None" test of load_simulation
CurveMissingNever == FALSE

CurveMissing == soc_data = None \/ ocv_data = None

\* load_simulation(num_rc_pairs, R0, R1, C1, R2, C2, nominal_capacity_Ah,
\*                 upper_voltage_cutoff, lower_voltage_cutoff)
load_simulation(a) ==
    LET p == ParameterValues(a)
        sameAsBefore == /\ cfg # None
                        /\ cfg[1].soc_data = soc_data
                        /\ cfg[1].ocv_data = ocv_data
                        /\ cfg[1].args = a
    IN
    /\ nloads < MaxLoads
    /\ nloads' = nloads + 1
    /\ lastOp' = "load_simulation"
    /\ UNCHANGED <<soc_data, ocv_data, simulation, ncurves>>
    /\ IF CurveMissing
       THEN \* return -1.0
            /\ ret' = Float(LOAD_NO_CURVE)
            /\ raised' = "no"
            /\ UNCHANGED <<model, solution, parameter_values, solver, model_processed,
                           everLoaded, cfg, charge, stepped, nsteps, reconfigured,
                           overSession>>
       ELSE IF RhsDividesByZero(p)
       THEN \* self.model was replaced; building model.rhs raised
            /\ model' = Some(EmptyModel)
            /\ ret' = Float(LOAD_EXCEPTION)
            /\ raised' = "ZeroDivisionError"
            /\ charge' = None
            /\ UNCHANGED <<solution, parameter_values, solver, model_processed,
                           everLoaded, cfg, stepped, nsteps, reconfigured,
                           overSession>>
       ELSE /\ model' = Some(BuiltModel(p, InitialConditions, soc_data, ocv_data))
            /\ parameter_values' = Some(p)
            /\ solver' = Some("CasadiSolver")
            /\ model_processed' = TRUE
            /\ IF SolveRaises(soc_data, ocv_data, 0, BootstrapEnd)
               THEN /\ ret' = Float(LOAD_EXCEPTION)
                    /\ raised' = "SolverError"
                    /\ charge' = None
                    /\ UNCHANGED <<solution, everLoaded, cfg, stepped, nsteps, reconfigured,
                           overSession>>
               ELSE /\ solution' = Some(Solve(InitialConditions, p, soc_data, ocv_data,
                                              0, BootstrapEnd, 0))
                    /\ ret' = Float(p.Capacity)
                    /\ raised' = "no"
                    /\ everLoaded' = TRUE
                    /\ cfg' = Some([soc_data |-> soc_data, ocv_data |-> ocv_data,
                                    args |-> a, solution |-> solution',
                                    parameter_values |-> parameter_values'])
                    /\ charge' = Some(0)
                    /\ stepped' = FALSE
                    /\ reconfigured' = (lastOp = "reset_simulation" /\ sameAsBefore
                                        /\ nsteps > 0)
                    /\ overSession' = (solution # None /\ stepped)
                    /\ UNCHANGED nsteps

\* the return value of step_simulation while self.solution is None
NotConfiguredResultZero == <<Float(0), Float(0)>>

NotConfiguredResult == <<NaN, NaN>>

\* the return value of step_simulation when solver.solve raised
SolveFailedResultStale ==
    <<Float(solution[1].V), Float(ClampPercent(Percent(solution[1].y[1])))>>

SolveFailedResult == <<NaN, NaN>>

\* terminal voltage and clamped SoC percent read from a Solution (the named
\* variable, the key search and the y[0, -1] fallback all read the same SoC)
StepResult(sol) == <<Float(sol.V), Float(ClampPercent(Percent(sol.y[1])))>>

\* self.solution after solver.solve raised: the assignment did not happen
SolutionAfterFailedSolveCleared == None

SolutionAfterFailedSolve == solution

\* step_simulation(current_A, time_step_s), at most limit successful steps
StepWithin(I, dt, limit) ==
    /\ lastOp' = "step_simulation"
    /\ UNCHANGED <<soc_data, ocv_data, simulation, parameter_values, model_processed,
                   everLoaded, cfg, reconfigured, overSession, ncurves, nloads>>
    /\ IF solution = None
       THEN /\ ret' = NotConfiguredResult
            /\ raised' = "no"
            /\ UNCHANGED <<model, solution, solver, charge, stepped, nsteps>>
       ELSE LET t_start == solution[1].t
                t_end == t_start + dt * MicroPerSecond
                y0 == solution[1].y
                p == parameter_values[1]
                soc0 == Clip(y0[1], 0, SocOne)
                ic == <<soc0, y0[2], y0[3]>>
            IN /\ nsteps < limit
               /\ IF SolveRaises(soc_data, ocv_data, t_start, t_end)
                  THEN /\ ret' = SolveFailedResult
                       /\ raised' = "SolverError"
                       /\ solution' = SolutionAfterFailedSolve
                       /\ UNCHANGED <<model, solver, charge, stepped, nsteps>>
                  ELSE /\ solution' = Some(Solve(ic, p, soc_data, ocv_data,
                                                 t_start, t_end, I))
                       /\ model' = Some(BuiltModel(p, ic, soc_data, ocv_data))
                       /\ solver' = Some("CasadiSolver")
                       /\ ret' = StepResult(solution'[1])
                       /\ raised' = "no"
                       /\ stepped' = TRUE
                       /\ nsteps' = nsteps + 1
                       /\ charge' = IF /\ charge # None
                                       /\ solution'[1].y[1] >= 0
                                       /\ solution'[1].y[1] <= SocOne
                                    THEN Some(charge[1] + I * dt)
                                    ELSE None

\* step_simulation(current_A, time_step_s)
step_simulation(I, dt) == StepWithin(I, dt, MaxSteps)

\* get_voltage()
get_voltage ==
    /\ lastOp' = "get_voltage"
    /\ ret' = IF solution # None THEN Float(solution[1].V) ELSE NaN
    /\ raised' = "no"
    /\ UNCHANGED <<prog, everLoaded, cfg, charge, stepped, nsteps, reconfigured,
                   overSession, ncurves, nloads>>

\* get_soc()
get_soc ==
    /\ lastOp' = "get_soc"
    /\ ret' = IF solution # None
              THEN Float(ClampPercent(Percent(solution[1].y[1])))
              ELSE NaN
    /\ raised' = "no"
    /\ UNCHANGED <<prog, everLoaded, cfg, charge, stepped, nsteps, reconfigured,
                   overSession, ncurves, nloads>>

\* reset_simulation()
reset_simulation ==
    /\ simulation' = None
    /\ solution' = None
    /\ lastOp' = "reset_simulation"
    /\ ret' = <<TRUE>>
    /\ raised' = "no"
    /\ charge' = None
    /\ stepped' = FALSE
    /\ UNCHANGED <<soc_data, ocv_data, model, parameter_values, solver,
                   model_processed, everLoaded, cfg, nsteps, reconfigured,
                   overSession, ncurves, nloads>>

\* generate_and_load_ocv_curve and get_soc_ocv_curve are not modelled: the first
\* evaluates an electrochemical parameter set, the second only formats the table.
Next ==
    \/ \E c \in Curves : load_ocv_soc_curve(c)
    \/ \E a \in ArgSets : load_simulation(a)
    \/ \E I \in Currents, dt \in TimeSteps : step_simulation(I, dt)
    \/ get_voltage
    \/ get_soc
    \/ reset_simulation

Spec == Init /\ [][Next]_vars

\* The constant-current discharge scenario: every step is 60 s at 5 A, and the
\* object makes up to ScenarioSteps of them.
ScenarioCurrent == 5
ScenarioTimeStep == 60

NextScenario ==
    \/ \E c \in Curves : load_ocv_soc_curve(c)
    \/ \E a \in ArgSets : load_simulation(a)
    \/ StepWithin(ScenarioCurrent, ScenarioTimeStep, ScenarioSteps)
    \/ get_voltage
    \/ get_soc
    \/ reset_simulation

SpecScenario == Init /\ [][NextScenario]_vars

\* ================================================================ claims
\* the last call was a load_simulation that returned the capacity
LoadSucceeded ==
    lastOp = "load_simulation" /\ raised = "no" /\ solution # None /\ ~stepped

FailureCodes == {Float(LOAD_NO_CURVE), Float(LOAD_EXCEPTION)}

\* C1: while no load_simulation has succeeded, every step_simulation returns
\* (NaN, NaN), catches no exception and leaves the wrapper's fields unchanged.
C1_StepBeforeLoad ==
    [][(~everLoaded /\ lastOp' = "step_simulation")
         => (ret' = <<NaN, NaN>> /\ raised' = "no" /\ UNCHANGED prog)]_vars

\* a step made after a load_simulation that failed with a curve loaded
C1_Witness ==
    /\ lastOp = "step_simulation"
    /\ ~everLoaded
    /\ soc_data # None
    /\ parameter_values # None
    /\ ret = <<NaN, NaN>>

\* C2: every SoC percent returned by step_simulation or get_soc that is not NaN
\* lies in [0, 100].
C2_SocPercentInRange ==
    /\ (lastOp = "step_simulation" /\ ret[2] # NaN)
         => (ret[2][1] >= 0 /\ ret[2][1] <= 100 * PctScale)
    /\ (lastOp = "get_soc" /\ ret # NaN)
         => (ret[1] >= 0 /\ ret[1] <= 100 * PctScale)

\* a step whose integrated SoC fell below zero returned 0 %
C2_Witness ==
    /\ lastOp = "step_simulation"
    /\ raised = "no"
    /\ solution # None
    /\ solution[1].y[1] < 0
    /\ ret[2] = Float(0)

\* C3: after reset_simulation on a session that had been configured, the next
\* step_simulation is accepted without a new load_simulation: it is not answered
\* from the "solution is None" branch, and on success it integrates from SoC 1.0
\* with both overpotentials zero.
C3_StepAfterReset ==
    [][(everLoaded /\ lastOp = "reset_simulation" /\ lastOp' = "step_simulation")
         => /\ (raised' = "SolverError" \/ ret' # NotConfiguredResult)
            /\ (raised' = "no" => /\ model' # None
                                  /\ model'[1].ic = Some(InitialConditions))]_vars

\* C4: get_voltage and get_soc return NaN whenever no step has completed since
\* the object was created, last configured or last reset.
C4_GettersBeforeStep ==
    (lastOp \in {"get_voltage", "get_soc"} /\ ~stepped) => ret = NaN

\* C5: a step_simulation whose solver.solve raised returns (NaN, NaN).
C5_SolverFailureIsSentinel ==
    (lastOp = "step_simulation" /\ raised = "SolverError") => ret = <<NaN, NaN>>

\* a step failed in the solver after an earlier step had produced values
C5_Witness ==
    /\ lastOp = "step_simulation"
    /\ raised = "SolverError"
    /\ stepped
    /\ solution # None
    /\ ret = <<NaN, NaN>>

\* C6: after a successful load_simulation followed only by successful steps that
\* keep SoC in [0, 1], SoC = 1 - (sum of I * dt) / (capacity * 3600).
C6_SocIsChargeBalance ==
    (charge # None /\ solution # None)
      => (SocOne - solution[1].y[1]) * (parameter_values[1].Capacity * SecondsPerHour)
           = charge[1] * SocOne

\* two discharging steps have been summed
C6_Witness ==
    /\ lastOp = "step_simulation"
    /\ charge # None
    /\ nsteps = 2
    /\ charge[1] > 0
    /\ solution # None
    /\ solution[1].I > 0
    /\ solution[1].y[1] < SocOne

\* the initial SoC policy of the specification: the highest sample SoC whose OCV
\* does not exceed the cutoff, else the SoC of the sample with the closest OCV,
\* the lower SoC on a tie
PolicyInitialSoc(socs, ocvs, cutoff) ==
    LET idx == 1..Len(socs)
        below == {i \in idx : ocvs[i] <= cutoff}
        dist(i) == IF ocvs[i] >= cutoff THEN ocvs[i] - cutoff ELSE cutoff - ocvs[i]
        nearest == {i \in idx : \A j \in idx : dist(i) <= dist(j)}
    IN IF below # {}
       THEN socs[CHOOSE i \in below : \A j \in below : socs[j] <= socs[i]]
       ELSE socs[CHOOSE i \in nearest : \A j \in nearest : socs[i] <= socs[j]]

\* C7: after a successful load_simulation the initial SoC is the one the cutoff
\* policy picks from the loaded curve.
C7_InitialSocFromCutoff ==
    LoadSucceeded
      => solution[1].y[1]
           = PolicyInitialSoc(soc_data[1], ocv_data[1], cfg[1].args.upper_voltage_cutoff)

\* C8: load_simulation succeeds only if R0, R1, C1, R2, C2 and the capacity are
\* all positive.
C8_NonPositiveRejected ==
    LoadSucceeded
      => LET a == cfg[1].args
         IN /\ a.R0 > 0
            /\ a.R1 > 0
            /\ a.C1 > 0
            /\ a.R2 > 0
            /\ a.C2 > 0
            /\ a.nominal_capacity_Ah > 0

\* C9: while no curve is loaded, load_simulation returns a failure code and
\* changes no field, and step_simulation, get_voltage and get_soc return the
\* NaN sentinel.
C9_LoadWithoutCurve ==
    [][(soc_data = None /\ ocv_data = None)
         => /\ lastOp' = "load_simulation"
                 => (ret' \in FailureCodes /\ solution' = None /\ UNCHANGED prog)
            /\ lastOp' = "step_simulation" => ret' = <<NaN, NaN>>
            /\ lastOp' \in {"get_voltage", "get_soc"} => ret' = NaN]_vars

\* a step made after a load_simulation that found no curve
C9_Witness ==
    /\ lastOp = "step_simulation"
    /\ soc_data = None
    /\ nloads > 0
    /\ solution = None
    /\ ret = <<NaN, NaN>>

\* C10: a successful load_simulation made right after reset_simulation, with the
\* curve and the arguments of the previous configuration, gives the persisted
\* state that configuration gave: same SoC, zero overpotentials, same time, same
\* stored parameters.
C10_ResetThenLoadReproduces ==
    [][(/\ lastOp = "reset_simulation"
        /\ cfg # None
        /\ lastOp' = "load_simulation"
        /\ raised' = "no"
        /\ cfg[1].soc_data = soc_data
        /\ cfg[1].ocv_data = ocv_data
        /\ cfg'[1].args = cfg[1].args)
         => /\ solution' = cfg[1].solution
            /\ solution'[1].y[2] = 0
            /\ solution'[1].y[3] = 0
            /\ parameter_values' = cfg[1].parameter_values]_vars

\* the configuration was repeated after steps and a reset
C10_Witness ==
    /\ lastOp = "load_simulation"
    /\ reconfigured
    /\ nsteps > 0
    /\ solution # None

\* a successful step_simulation is being taken from a stored solution
StepSucceeds ==
    /\ lastOp' = "step_simulation"
    /\ raised' = "no"
    /\ solution # None
    /\ nsteps' = nsteps + 1

\* a sample table the curve store must refuse: fewer than two points, or an
\* SoC sample outside [0, 1]
InvalidCurve(socs) ==
    \/ Len(socs) < 2
    \/ \E i \in 1..Len(socs) : socs[i] < 0 \/ socs[i] > SocOne

\* C11: a sample table with fewer than 2 points or with an SoC sample outside
\* [0, 1] is refused by load_ocv_soc_curve and does not replace the stored
\* curve, so the stored curve is never such a table and no such load
\* reports success.
C11_InvalidCurveRefused ==
    soc_data # None => ~InvalidCurve(soc_data[1])

\* C12: in a session configured with num_rc_pairs = 1 the persisted v_r2 is
\* zero whatever steps were made, and a step's terminal voltage is
\* ocv(soc) - I * R0 - v_r1.
C12_SingleRcPair ==
    (solution # None /\ cfg # None /\ cfg[1].args.num_rc_pairs = 1)
        => /\ solution[1].y[3] = 0
           /\ (lastOp = "step_simulation" /\ raised = "no" /\ stepped)
                  => solution[1].V =
                         Interpolant(soc_data[1], ocv_data[1], solution[1].y[1])
                         - solution[1].I * parameter_values[1].R0
                         - solution[1].y[2]

C14_LoadOverSession ==
    [][(lastOp' = "load_simulation" /\ raised' = "no" /\ solution # None /\ stepped)
        => /\ solution' # None
           /\ solution'[1].y = <<SocOne, 0, 0>>
           /\ solution'[1].t = BootstrapEnd
           /\ solution'[1].I = 0
           /\ model'[1].ic = Some(<<SocOne, 0, 0>>)
           /\ parameter_values' = Some(ParameterValues(cfg'[1].args))
           /\ ~stepped']_vars

\* a load has just succeeded over a session that had taken two steps
C14_Witness ==
    /\ lastOp = "load_simulation"
    /\ raised = "no"
    /\ overSession
    /\ nsteps = 2
    /\ solution # None
    /\ solution[1].t = BootstrapEnd

\* the stored ECM parameters are all positive
ParametersPositive ==
    /\ parameter_values # None
    /\ \A f \in DOMAIN parameter_values[1] : parameter_values[1][f] > 0

\* C15: with the curve [(0, 3.0), (0.5, 3.7), (1, 4.2)] and positive
\* parameters, each of the consecutive 60 s steps at 5 A that follow a fresh
\* configuration returns a terminal voltage strictly below the one the step
\* before it returned.
C15_DischargeVoltageDecreases ==
    [][(StepSucceeds /\ lastOp = "step_simulation" /\ raised = "no"
            /\ soc_data = Some(ScenarioCurve[1]) /\ ocv_data = Some(ScenarioCurve[2])
            /\ ParametersPositive)
        => /\ ret[1] # NaN
           /\ ret'[1] # NaN
           /\ ret'[1][1] < ret[1][1]]_vars

\* the fifth consecutive step since the default configuration has returned
C15_Witness ==
    /\ lastOp = "step_simulation"
    /\ raised = "no"
    /\ nsteps = 5
    /\ charge = Some(5 * ScenarioCurrent * ScenarioTimeStep)
    /\ soc_data = Some(ScenarioCurve[1])
    /\ cfg[1].args = DefaultArgs
    /\ ret = StepResult(solution[1])

\* C16: the value returned by a load_simulation that succeeded is never one
\* of the failure codes -1.0 and -444.0.
C16_SuccessIsNotAFailureCode ==
    LoadSucceeded => ret \notin FailureCodes

\* C17: a successful step integrates from the persisted SoC clipped to
\* [0, 1] (exactly 0 below, exactly 1 above), from the persisted v_r1 and
\* v_r2 as they are, and from the persisted end time.
C17_StepStartsInsideRange ==
    [][StepSucceeds
        => LET y0 == solution[1].y
               soc0 == IF y0[1] < 0 THEN 0 ELSE IF y0[1] > SocOne THEN SocOne ELSE y0[1]
               p == parameter_values[1]
           IN /\ model'[1].ic = Some(<<soc0, y0[2], y0[3]>>)
              /\ solution'[1].t > solution[1].t
              /\ (solution'[1].t - solution[1].t) \div MicroPerSecond \in TimeSteps
              /\ solution'[1].y[1] =
                     SocAfter(soc0, solution'[1].I, p.Capacity, solution'[1].t - solution[1].t)
              /\ solution'[1].y[2] =
                     RcAfter(y0[2], solution'[1].I, p.R1, p.C1, solution'[1].t - solution[1].t)
              /\ solution'[1].y[3] =
                     RcAfter(y0[3], solution'[1].I, p.R2, p.C2, solution'[1].t - solution[1].t)]_vars

\* a step has just integrated from SoC exactly 0 after a 500 A step had
\* persisted a negative SoC, with the RC voltages of that step carried over
C17_Witness ==
    /\ lastOp = "step_simulation"
    /\ raised = "no"
    /\ nsteps = 2
    /\ model[1].ic[1][1] = 0
    /\ model[1].ic[1][2] > 0
    /\ model[1].ic[1][3] > 0
    /\ solution[1].I = -5
    /\ solution[1].y[1] > 0

\* C18: the table handed to the interpolant, by load_simulation and by every
\* step_simulation, is in ascending SoC order whatever order the samples
\* were loaded in.
C18_TableAscending ==
    (model # None /\ model[1].table # None)
        => LET xs == model[1].table[1][1][1]
           IN \A i \in 1..(Len(xs) - 1) : xs[i] <= xs[i + 1]

\* C19: a step_simulation whose solver call fails leaves the persisted
\* solution (SoC, v_r1, v_r2, end time), the stored model and the stored
\* solver as they were, so the getters keep reporting the last successful
\* step and the next step continues from it.
C19_FailedStepKeepsState ==
    [][(lastOp' = "step_simulation" /\ raised' = "SolverError")
        => /\ solution # None
           /\ solution' = solution
           /\ model' = model
           /\ solver' = solver
           /\ UNCHANGED <<soc_data, ocv_data, simulation, parameter_values, model_processed>>]_vars

\* a step has just failed in the solver on a session that had stepped before
C19_Witness ==
    /\ lastOp = "step_simulation"
    /\ raised = "SolverError"
    /\ stepped
    /\ nsteps > 0
    /\ solution # None
    /\ solution[1].t > BootstrapEnd
    /\ model[1].ic # Some(InitialConditions)

\* the load_simulation call being made fails: no curve, or an exception
LoadFails ==
    /\ lastOp' = "load_simulation"
    /\ \/ raised' # "no"
       \/ soc_data = None
       \/ ocv_data = None

\* C20: a load_simulation that returns -1.0 or -444.0 on a configured session
\* leaves the persisted solution, the stored model and the stored ECM
\* parameters as they were, so later steps never combine the old solution
\* with new parameters.
C20_FailedLoadKeepsSession ==
    [][(LoadFails /\ solution # None)
        => /\ ret' \in FailureCodes
           /\ solution' = solution
           /\ model' = model
           /\ parameter_values' = parameter_values]_vars

====
